---- MODULE Spec2Model ----
(***************************************************************************)
(* Model of the NovaAutoScraper retrieval-and-extraction pipeline          *)
(* (src/scrapers.py) and of the /scrape route that calls it (src/app.py).  *)
(*                                                                         *)
(* One scraper instance exists at a time.  A call to                       *)
(* scrape_vehicle_listings runs get_with_retry (one action per loop        *)
(* iteration), then parses and selects the listing nodes, then builds one  *)
(* record per node (one action per loop iteration), then returns.          *)
(* The variables gets, outcomes and sleeps instrument the transport and    *)
(* time.sleep of the get_with_retry call in progress.                      *)
(***************************************************************************)
EXTENDS Integers, Sequences, FiniteSets, TLC

\* ---------------------------------------------------------------- bounds
\* largest configured retry count explored (MAX_RETRIES itself is 3)
MaxN == 3
\* largest number of nodes matched by the listing selector
MaxListings == 2
\* number of scrape calls followed in one behaviour
MaxCalls == 2
\* largest number of listing nodes in the documents of SpecExtract
MaxExtract == 1

\* ------------------------------------------------------------- constants
MAX_RETRIES == 3
DelayMin == 1
DelayMax == 5

\* absent value (Python None); every Python value is modelled as a record
None == [none |-> TRUE]

\* a str value
Str(s) == [text |-> s]

\* BASE_URL = "https://novaautoland.com", split as urlparse splits it
BASE_URL == [scheme |-> "https", netloc |-> "novaautoland.com", rooted |-> FALSE, segs |-> <<>>]

\* REQUEST_DELAY = random.uniform(1, 5): the ends of the range stand for it
RequestDelays == {DelayMin, DelayMax}

RECURSIVE Pow2(_)
Pow2(n) == IF n = 0 THEN 1 ELSE 2 * Pow2(n - 1)

\* --------------------------------------------------------------- transport
\* status codes a server can answer with
Statuses == {200, 304, 404}

\* what one evaluation of lines 34-39 can produce: a response with a status,
\* a connection/timeout failure (requests.RequestException), or an exception
\* of another class raised while the call's arguments are evaluated
\* (self.ua.random), in which case no GET is sent
Outcomes ==
    [kind : {"response"}, status : Statuses]
        \cup {[kind |-> "network", status |-> 0], [kind |-> "other", status |-> 0]}

\* response.raise_for_status(): raises HTTPError for 4xx and 5xx only
raise_for_status(status) == status >= 400 /\ status < 600

\* the exception, if any, that the try body of one attempt raises
\* (tagged with the 1-based attempt that created it), else None
AttemptError(o, att) ==
    IF o.kind = "network" THEN [kind |-> "network", status |-> 0, attempt |-> att]
    ELSE IF o.kind = "other" THEN [kind |-> "other", status |-> 0, attempt |-> att]
    ELSE IF raise_for_status(o.status)
         THEN [kind |-> "http", status |-> o.status, attempt |-> att]
         ELSE None

\* variant: the handler is except Exception, so every error is retried
IsRequestException_All(e) == e.kind \in {"network", "http", "other"}

\* variant: only connection and timeout errors are caught
IsRequestException_NetworkOnly(e) == e.kind = "network"

\* except requests.RequestException: HTTPError, ConnectionError and Timeout
\* are subclasses, other exceptions are not
IsRequestException(e) == e.kind \in {"network", "http"}

\* variant: the last attempt is tested one iteration too late
IsLastAttempt_OffByOne(a, n) == a = n

\* if attempt == MAX_RETRIES - 1
IsLastAttempt(a, n) == a = n - 1

\* variant: a linear backoff
Backoff_Linear(a) == 2 * a

\* time.sleep(2 ** attempt)
Backoff(a) == Pow2(a)

\* variant: the delay slept is not the value drawn at import
DelaySleep_Min(d) == [kind |-> "delay", secs |-> DelayMin]

\* entries of the sleep trace
DelaySleep(d) == [kind |-> "delay", secs |-> d]
BackoffSleep(a) == [kind |-> "backoff", secs |-> Backoff(a)]

\* variant: the first error is kept and raised at the end
Reraised_First(errs, e) == errs[1]

\* the bare raise of line 46 re-raises the exception being handled
Reraised(errs, e) == e

\* ---------------------------------------------------------------- document
\* hrefs as urlparse sees them; "bad" is text urlparse rejects (ValueError)
HrefRel == [bad |-> FALSE, scheme |-> "", netloc |-> "", rooted |-> TRUE, segs |-> <<"car", "42">>]
HrefAbs == [bad |-> FALSE, scheme |-> "https", netloc |-> "other.com", rooted |-> TRUE, segs |-> <<"x">>]
HrefBad == [bad |-> TRUE, scheme |-> "", netloc |-> "", rooted |-> FALSE, segs |-> <<>>]

\* further hrefs: "car/42", "/a/../b", "HTTPS://Other.com/x",
\* "http://other.com/x", "https:x", "//cdn.x/y" and the empty string
HrefRelPath == [bad |-> FALSE, scheme |-> "", netloc |-> "", rooted |-> FALSE, segs |-> <<"car", "42">>]
HrefDots == [bad |-> FALSE, scheme |-> "", netloc |-> "", rooted |-> TRUE, segs |-> <<"a", "..", "b">>]
HrefUpper == [bad |-> FALSE, scheme |-> "HTTPS", netloc |-> "Other.com", rooted |-> TRUE, segs |-> <<"x">>]
HrefHttp == [bad |-> FALSE, scheme |-> "http", netloc |-> "other.com", rooted |-> TRUE, segs |-> <<"x">>]
HrefNoHost == [bad |-> FALSE, scheme |-> "https", netloc |-> "", rooted |-> FALSE, segs |-> <<"x">>]
HrefHostOnly == [bad |-> FALSE, scheme |-> "", netloc |-> "cdn.x", rooted |-> TRUE, segs |-> <<"y">>]
HrefEmpty == [bad |-> FALSE, scheme |-> "", netloc |-> "", rooted |-> FALSE, segs |-> <<>>]

Hrefs == {HrefRel, HrefAbs, HrefBad, HrefRelPath, HrefDots, HrefUpper, HrefHttp,
          HrefNoHost, HrefHostOnly, HrefEmpty}

\* a sub-element is None when select_one finds nothing; a found link/image
\* element carries its attribute or None when the attribute is missing
Node(t, p, m, l, i) == [title |-> t, price |-> p, mileage |-> m, link |-> l, image |-> i]
Elem(a) == [attr |-> a]

Nodes ==
    { Node(Str("2020 Civic"), Str("$18,000"), Str("30,000 mi"), Elem(HrefRel), Elem(Str("/i/1.jpg"))),
      Node(Str("2021 Golf"), None, Str("12,000 mi"), Elem(HrefAbs), Elem(Str("/i/2.jpg"))),
      Node(None, None, None, None, None),
      Node(Str("2019 Polo"), Str("$9,000"), None, Elem(None), Elem(None)),
      Node(Str("2018 Clio"), Str("$7,000"), Str("80,000 mi"), Elem(HrefBad), Elem(Str("/i/5.jpg"))) }

\* every shape of listing node: each text sub-element absent or present, the
\* link absent, without href or with one of the hrefs, the image absent,
\* without src or with a src
ExtractNodes ==
    { Node(t, p, m, l, i) :
        t \in {None, Str("2020 Civic")},
        p \in {None, Str("$18,000")},
        m \in {None, Str("30,000 mi")},
        l \in {None, Elem(None)} \cup {Elem(h) : h \in Hrefs},
        i \in {None, Elem(None), Elem(Str("/i/1.jpg"))} }

RECURSIVE SeqsUpTo(_, _)
SeqsUpTo(S, n) ==
    IF n = 0 THEN {<<>>}
    ELSE LET shorter == SeqsUpTo(S, n - 1)
         IN  shorter \cup {Append(s, x) : s \in {t \in shorter : Len(t) = n - 1}, x \in S}

\* what soup.select('div.vehicle-listing') can return
Docs == SeqsUpTo(Nodes, MaxListings)

\* _get_text: found.get_text(strip=True) if found else None
\* (the node's text fields are stored stripped)
_get_text(field) == field

\* urlparse lower-cases the scheme it splits off
LowerScheme(sch) == IF sch = "HTTPS" THEN "https" ELSE IF sch = "HTTP" THEN "http" ELSE sch

\* the href as written, without the marker of rejected text
AsWritten(h) == [scheme |-> h.scheme, netloc |-> h.netloc, rooted |-> h.rooted, segs |-> h.segs]

\* urljoin's removal of the "." and ".." segments of a merged path
RECURSIVE RemoveDots(_, _)
RemoveDots(segs, acc) ==
    IF segs = <<>> THEN acc
    ELSE IF Head(segs) = ".."
    THEN RemoveDots(Tail(segs), IF acc = <<>> THEN acc ELSE SubSeq(acc, 1, Len(acc) - 1))
    ELSE IF Head(segs) = "."
    THEN RemoveDots(Tail(segs), acc)
    ELSE RemoveDots(Tail(segs), Append(acc, Head(segs)))

\* urljoin(BASE_URL, href) for hrefs urlparse accepts: an empty href gives
\* the base; a scheme other than the base's gives the href as written; the
\* base's scheme with a host gives the href re-assembled from its parts;
\* anything else is a path resolved against the base
urljoin(base, h) ==
    IF h.scheme = "" /\ h.netloc = "" /\ h.segs = <<>> /\ ~h.rooted
    THEN base
    ELSE LET scheme == IF h.scheme = "" THEN base.scheme ELSE LowerScheme(h.scheme)
             baseDir == IF base.segs = <<>> THEN <<>> ELSE SubSeq(base.segs, 1, Len(base.segs) - 1)
         IN  IF scheme # base.scheme
             THEN AsWritten(h)
             ELSE IF h.netloc # ""
             THEN [scheme |-> scheme, netloc |-> h.netloc, rooted |-> h.rooted, segs |-> h.segs]
             ELSE [scheme |-> scheme, netloc |-> base.netloc, rooted |-> TRUE,
                   segs |-> RemoveDots(IF h.rooted THEN h.segs ELSE baseDir \o h.segs, <<>>)]

\* does _get_link raise for this link sub-element? (urljoin on rejected text)
LinkRaises(l) == l # None /\ l.attr # None /\ l.attr.bad

\* variant: the href is returned as found, without urljoin
_get_link_Verbatim(l) == IF l # None /\ l.attr # None THEN AsWritten(l.attr) ELSE None

\* _get_link: urljoin(BASE_URL, found['href']) if found and has href else None
_get_link(l) == IF l # None /\ l.attr # None THEN urljoin(BASE_URL, l.attr) ELSE None

\* _get_image: found['src'] if found and has src else None
_get_image(i) == IF i # None /\ i.attr # None THEN i.attr ELSE None

\* variant: get_text is called on the result of select_one without a guard
ExtractionRaises_OnAbsent(node) ==
    LinkRaises(node.link) \/ node.title = None \/ node.price = None \/ node.mileage = None

\* does building the record of this node raise?
ExtractionRaises(node) == LinkRaises(node.link)

\* the dict of lines 61-67
BuildVehicle(node) ==
    [title |-> _get_text(node.title),
     price |-> _get_text(node.price),
     mileage |-> _get_text(node.mileage),
     link |-> _get_link(node.link),
     image |-> _get_image(node.image)]

\* ------------------------------------------------------------------- state
VARIABLES
    maxRetries,    \* MAX_RETRIES as configured
    requestDelay,  \* REQUEST_DELAY, drawn once at import
    pc,            \* position of the single thread of control
    caller,        \* "app" (the /scrape route) or "direct" (the method called on the instance)
    calls,         \* scrape calls completed
    sessionGets,   \* GETs sent over self.session since the instance was built
    attempt,       \* loop variable of get_with_retry
    gets,          \* GETs sent by the get_with_retry call in progress
    outcomes,      \* outcome of each attempt of that call, in order
    sleeps,        \* time.sleep calls of that call, in order
    fetchResult,   \* how get_with_retry left: returned a response or raised
    listings,      \* the selected listing nodes
    idx,           \* listings processed so far
    vehicles,      \* records appended so far
    skipped,       \* 1-based positions of the listings whose extraction raised
    result,        \* what scrape_vehicle_listings handed to its caller
    envelope,      \* what the /scrape route answered
    log            \* the last message handed to logging

vars == <<maxRetries, requestDelay, pc, caller, calls, sessionGets, attempt, gets,
          outcomes, sleeps, fetchResult, listings, idx, vehicles, skipped, result, envelope, log>>

config == <<maxRetries, requestDelay>>
fetchVars == <<attempt, gets, outcomes, sleeps, fetchResult>>
extractVars == <<listings, idx, vehicles, skipped>>

NoResult == [kind |-> "none"]

Init ==
    /\ maxRetries \in 1..MaxN
    /\ requestDelay \in RequestDelays
    /\ pc = "idle"
    /\ caller = "direct"
    /\ calls = 0
    /\ sessionGets = 0
    /\ attempt = 0
    /\ gets = 0
    /\ outcomes = <<>>
    /\ sleeps = <<>>
    /\ fetchResult = NoResult
    /\ listings = <<>>
    /\ idx = 0
    /\ vehicles = <<>>
    /\ skipped = {}
    /\ result = NoResult
    /\ envelope = NoResult
    /\ log = "none"

\* variant: the attempt counter lives on the instance and is not reset
EnterScrape_KeepsAttempt ==
    /\ pc' = "fetch"
    /\ UNCHANGED attempt
    /\ gets' = 0
    /\ outcomes' = <<>>
    /\ sleeps' = <<>>
    /\ fetchResult' = NoResult
    /\ listings' = <<>>
    /\ idx' = 0
    /\ vehicles' = <<>>
    /\ skipped' = {}
    /\ result' = NoResult
    /\ envelope' = NoResult
    /\ log' = "starting"

\* entry of scrape_vehicle_listings up to the call of get_with_retry:
\* a fresh frame for both methods
EnterScrape ==
    /\ pc' = "fetch"
    /\ attempt' = 0
    /\ gets' = 0
    /\ outcomes' = <<>>
    /\ sleeps' = <<>>
    /\ fetchResult' = NoResult
    /\ listings' = <<>>
    /\ idx' = 0
    /\ vehicles' = <<>>
    /\ skipped' = {}
    /\ result' = NoResult
    /\ envelope' = NoResult
    /\ log' = "starting"

\* GET /scrape: builds a new scraper, then calls scrape_vehicle_listings;
\* the constructor (UserAgent()) may raise, which the route's except answers
scrape_vehicles(initOk) ==
    /\ pc = "idle"
    /\ calls < MaxCalls
    /\ caller' = "app"
    /\ sessionGets' = 0
    /\ IF initOk
       THEN /\ EnterScrape
            /\ UNCHANGED calls
       ELSE /\ pc' = "idle"
            /\ calls' = calls + 1
            /\ envelope' = [status |-> "error", code |-> 500, count |-> 0, data |-> <<>>]
            /\ log' = "api_error"
            /\ result' = NoResult
            /\ fetchResult' = NoResult
            /\ attempt' = 0 /\ gets' = 0 /\ outcomes' = <<>> /\ sleeps' = <<>>
            /\ listings' = <<>> /\ idx' = 0 /\ vehicles' = <<>> /\ skipped' = {}
    /\ UNCHANGED config

\* scraper.scrape_vehicle_listings() on the existing instance
scrape_vehicle_listings ==
    /\ pc = "idle"
    /\ calls < MaxCalls
    /\ caller' = "direct"
    /\ EnterScrape
    /\ UNCHANGED <<config, calls, sessionGets>>

\* variant: the response is not returned from inside the loop
Control_NoReturn(e, a, n) ==
    IF e = None THEN "retry"
    ELSE IF ~IsRequestException(e) THEN "propagate"
    ELSE IF IsLastAttempt(a, n) THEN "raise"
    ELSE "retry"

\* what follows the try body of one attempt (lines 41-47): the response is
\* returned, an exception that is no RequestException leaves the method, a
\* RequestException on the last attempt is re-raised, any other is retried
Control(e, a, n) ==
    IF e = None THEN "return"
    ELSE IF ~IsRequestException(e) THEN "propagate"
    ELSE IF IsLastAttempt(a, n) THEN "raise"
    ELSE "retry"

\* variant: a loop that never advances its attempt counter
Attempt_NoIncrement(o) ==
    /\ pc = "fetch"
    /\ attempt < maxRetries
    /\ LET e == AttemptError(o, attempt + 1)
           sent == IF o.kind = "other" THEN 0 ELSE 1
           slept == Append(sleeps, DelaySleep(requestDelay))
           ctl == Control(e, attempt, maxRetries)
       IN  /\ outcomes' = Append(outcomes, o)
           /\ gets' = gets + sent
           /\ sessionGets' = sessionGets + sent
           /\ IF ctl = "return"
              THEN /\ fetchResult' = [kind |-> "returned",
                                      response |-> [status |-> o.status, attempt |-> attempt + 1]]
                   /\ sleeps' = slept
                   /\ pc' = "fetched"
                   /\ UNCHANGED <<attempt, log>>
              ELSE IF ctl \in {"propagate", "raise"}
              THEN /\ fetchResult' = [kind |-> "raised", error |-> e]
                   /\ sleeps' = slept
                   /\ pc' = "fetched"
                   /\ UNCHANGED <<attempt, log>>
              ELSE /\ sleeps' = Append(slept, BackoffSleep(attempt))
                   /\ log' = "attempt_failed"
                   /\ UNCHANGED <<attempt, fetchResult, pc>>
    /\ UNCHANGED <<config, caller, calls, extractVars, result, envelope>>

\* one iteration of the loop of get_with_retry
Attempt(o) ==
    /\ pc = "fetch"
    /\ attempt < maxRetries
    /\ LET e == AttemptError(o, attempt + 1)
           sent == IF o.kind = "other" THEN 0 ELSE 1
           slept == Append(sleeps, DelaySleep(requestDelay))
           errs == [i \in 1..(Len(outcomes) + 1) |-> AttemptError(Append(outcomes, o)[i], i)]
           ctl == Control(e, attempt, maxRetries)
       IN  /\ outcomes' = Append(outcomes, o)
           /\ gets' = gets + sent
           /\ sessionGets' = sessionGets + sent
           /\ CASE ctl = "return" ->
                   /\ fetchResult' = [kind |-> "returned",
                                      response |-> [status |-> o.status, attempt |-> attempt + 1]]
                   /\ sleeps' = slept
                   /\ pc' = "fetched"
                   /\ UNCHANGED <<attempt, log>>
                [] ctl = "propagate" ->
                   /\ fetchResult' = [kind |-> "raised", error |-> e]
                   /\ sleeps' = slept
                   /\ pc' = "fetched"
                   /\ UNCHANGED <<attempt, log>>
                [] ctl = "raise" ->
                   /\ fetchResult' = [kind |-> "raised", error |-> Reraised(errs, e)]
                   /\ sleeps' = slept
                   /\ pc' = "fetched"
                   /\ log' = "max_retries"
                   /\ UNCHANGED attempt
                [] OTHER ->
                   \* backoff, then the next iteration; a for loop that runs
                   \* out of range(MAX_RETRIES) ends the method, returning None
                   /\ sleeps' = Append(slept, BackoffSleep(attempt))
                   /\ attempt' = attempt + 1
                   /\ log' = "attempt_failed"
                   /\ IF attempt + 1 < maxRetries
                      THEN UNCHANGED <<fetchResult, pc>>
                      ELSE /\ fetchResult' = [kind |-> "returned", response |-> None]
                           /\ pc' = "fetched"
    /\ UNCHANGED <<config, caller, calls, extractVars, result, envelope>>

\* variants: handlers that catch a narrower class
InnerCatches_None(e) == FALSE
OuterCatches_OnlyRequests(e) == e.kind \in {"network", "http"}
OuterCatches_NotRequests(e) == e.kind \in {"other", "parse", "extract"}

\* except Exception as e (lines 69 and 76): every modelled error is an
\* Exception
InnerCatches(e) == e.kind \in {"network", "http", "other", "parse", "extract"}
OuterCatches(e) == e.kind \in {"network", "http", "other", "parse", "extract"}

\* an exception reaching the outer try of scrape_vehicle_listings:
\* return [] when the handler catches it, else it leaves the method
Degrade(e) ==
    IF OuterCatches(e) THEN [kind |-> "returned", records |-> <<>>]
    ELSE [kind |-> "raised", error |-> e]

\* logging.error(f"Scraping failed: ...") of the same handler
DegradeLog(e, last) == IF OuterCatches(e) THEN "failed" ELSE last

\* the exception of get_with_retry reaches the outer try (lines 76-78)
CatchFetchError ==
    /\ pc = "fetched"
    /\ fetchResult.kind = "raised"
    /\ result' = Degrade(fetchResult.error)
    /\ log' = DegradeLog(fetchResult.error, log)
    /\ pc' = "returned"
    /\ UNCHANGED <<config, caller, calls, sessionGets, fetchVars, extractVars, envelope>>

\* BeautifulSoup(response.content, 'html.parser') and soup.select(...);
\* an error of the parser, or reading .content of None, reaches the outer try
ParseSelect(parseOk, doc) ==
    /\ pc = "fetched"
    /\ fetchResult.kind = "returned"
    /\ IF parseOk /\ fetchResult.response # None
       THEN /\ listings' = doc
            /\ pc' = "extract"
            /\ UNCHANGED <<result, log>>
       ELSE /\ doc = <<>>
            /\ result' = Degrade([kind |-> "parse", status |-> 0, attempt |-> 0])
            /\ log' = DegradeLog([kind |-> "parse", status |-> 0, attempt |-> 0], log)
            /\ pc' = "returned"
            /\ UNCHANGED listings
    /\ UNCHANGED <<config, caller, calls, sessionGets, fetchVars, idx, vehicles, skipped, envelope>>

\* the exception raised while the record of a node is built
ExtractError == [kind |-> "extract", status |-> 0, attempt |-> 0]

\* variant: the record is appended with the fields read before the error
ExtractListing_AppendsPartial ==
    /\ pc = "extract"
    /\ idx < Len(listings)
    /\ LET node == listings[idx + 1]
           partial == [title |-> _get_text(node.title), price |-> _get_text(node.price),
                       mileage |-> _get_text(node.mileage), link |-> None, image |-> None]
       IN  IF ~ExtractionRaises(node)
           THEN /\ vehicles' = Append(vehicles, BuildVehicle(node))
                /\ UNCHANGED <<skipped, log>>
           ELSE /\ vehicles' = Append(vehicles, partial)
                /\ skipped' = skipped \cup {idx + 1}
                /\ log' = "listing_error"
    /\ idx' = idx + 1
    /\ UNCHANGED <<config, pc, result, caller, calls, sessionGets, fetchVars, listings, envelope>>

\* variant: the record is inserted at the front of the list
ExtractListing_Prepends ==
    /\ pc = "extract"
    /\ idx < Len(listings)
    /\ LET node == listings[idx + 1]
       IN  IF ~ExtractionRaises(node)
           THEN /\ vehicles' = <<BuildVehicle(node)>> \o vehicles
                /\ UNCHANGED <<skipped, log>>
           ELSE /\ skipped' = skipped \cup {idx + 1}
                /\ log' = "listing_error"
                /\ UNCHANGED vehicles
    /\ idx' = idx + 1
    /\ UNCHANGED <<config, pc, result, caller, calls, sessionGets, fetchVars, listings, envelope>>

\* one iteration of the loop over listings (lines 59-71)
ExtractListing ==
    /\ pc = "extract"
    /\ idx < Len(listings)
    /\ LET node == listings[idx + 1]
       IN  IF ~ExtractionRaises(node)
           THEN /\ vehicles' = Append(vehicles, BuildVehicle(node))
                /\ idx' = idx + 1
                /\ UNCHANGED <<skipped, pc, result, log>>
           ELSE IF InnerCatches(ExtractError)
           THEN \* log, continue
                /\ skipped' = skipped \cup {idx + 1}
                /\ idx' = idx + 1
                /\ log' = "listing_error"
                /\ UNCHANGED <<vehicles, pc, result>>
           ELSE \* the error reaches the outer try
                /\ result' = Degrade(ExtractError)
                /\ log' = DegradeLog(ExtractError, log)
                /\ pc' = "returned"
                /\ UNCHANGED <<vehicles, idx, skipped>>
    /\ UNCHANGED <<config, caller, calls, sessionGets, fetchVars, listings, envelope>>

\* variant: an empty list of records is treated as a failure
ReturnVehicles_EmptyIsError ==
    /\ pc = "extract"
    /\ idx = Len(listings)
    /\ IF vehicles = <<>>
       THEN /\ result' = Degrade([kind |-> "other", status |-> 0, attempt |-> 0])
            /\ log' = DegradeLog([kind |-> "other", status |-> 0, attempt |-> 0], log)
       ELSE /\ result' = [kind |-> "returned", records |-> vehicles]
            /\ log' = "success"
    /\ pc' = "returned"
    /\ UNCHANGED <<config, caller, calls, sessionGets, fetchVars, extractVars, envelope>>

\* return vehicles (lines 73-74)
ReturnVehicles ==
    /\ pc = "extract"
    /\ idx = Len(listings)
    /\ result' = [kind |-> "returned", records |-> vehicles]
    /\ log' = "success"
    /\ pc' = "returned"
    /\ UNCHANGED <<config, caller, calls, sessionGets, fetchVars, extractVars, envelope>>

\* variant: the route answers an empty result with the error envelope
Respond_EmptyIsError ==
    /\ pc = "returned"
    /\ envelope' = IF caller # "app" THEN envelope
                   ELSE IF result.kind = "returned" /\ result.records # <<>>
                   THEN [status |-> "success", code |-> 200,
                         count |-> Len(result.records), data |-> result.records]
                   ELSE [status |-> "error", code |-> 500, count |-> 0, data |-> <<>>]
    /\ log' = IF caller = "app" /\ result.kind # "returned" THEN "api_error" ELSE log
    /\ pc' = "idle"
    /\ calls' = calls + 1
    /\ UNCHANGED <<config, caller, sessionGets, fetchVars, extractVars, result>>

\* the caller takes over: the route wraps the records in the success
\* envelope, or answers an exception with the error envelope (app.py 12-22)
Respond ==
    /\ pc = "returned"
    /\ envelope' = IF caller # "app" THEN envelope
                   ELSE IF result.kind = "returned"
                   THEN [status |-> "success", code |-> 200,
                         count |-> Len(result.records), data |-> result.records]
                   ELSE [status |-> "error", code |-> 500, count |-> 0, data |-> <<>>]
    /\ log' = IF caller = "app" /\ result.kind # "returned" THEN "api_error" ELSE log
    /\ pc' = "idle"
    /\ calls' = calls + 1
    /\ UNCHANGED <<config, caller, sessionGets, fetchVars, extractVars, result>>

Next ==
    \/ \E initOk \in BOOLEAN : scrape_vehicles(initOk)
    \/ scrape_vehicle_listings
    \/ \E o \in Outcomes : Attempt(o)
    \/ CatchFetchError
    \/ \E parseOk \in BOOLEAN, doc \in Docs : ParseSelect(parseOk, doc)
    \/ ExtractListing
    \/ ReturnVehicles
    \/ Respond

Spec == Init /\ [][Next]_vars

\* the documents followed when only the progress of a call matters: a node
\* whose record is built and a node whose extraction raises
LiveDocs == SeqsUpTo({n \in Nodes : n.title \in {Str("2020 Civic"), Str("2018 Clio")}}, MaxListings)

\* a step of the call in progress
Step ==
    \/ \E o \in Outcomes : Attempt(o)
    \/ CatchFetchError
    \/ \E parseOk \in BOOLEAN, doc \in LiveDocs : ParseSelect(parseOk, doc)
    \/ ExtractListing
    \/ ReturnVehicles
    \/ Respond

NextLive ==
    \/ \E initOk \in BOOLEAN : scrape_vehicles(initOk)
    \/ scrape_vehicle_listings
    \/ Step

\* the code is sequential and blocking: as long as every network call and
\* every sleep returns, the call in progress takes its next step
SpecLive == Init /\ [][NextLive]_vars /\ WF_vars(Step)

\* the extraction alone, over every shape of node: the state of a direct
\* call after a first GET answered 200 and a document was parsed
InitExtract ==
    /\ maxRetries = MAX_RETRIES
    /\ requestDelay \in RequestDelays
    /\ pc = "extract"
    /\ caller = "direct"
    /\ calls = 0
    /\ sessionGets = 1
    /\ attempt = 0
    /\ gets = 1
    /\ outcomes = <<[kind |-> "response", status |-> 200]>>
    /\ sleeps = <<DelaySleep(requestDelay)>>
    /\ fetchResult = [kind |-> "returned", response |-> [status |-> 200, attempt |-> 1]]
    /\ listings \in SeqsUpTo(ExtractNodes, MaxExtract)
    /\ idx = 0
    /\ vehicles = <<>>
    /\ skipped = {}
    /\ result = NoResult
    /\ envelope = NoResult
    /\ log = "starting"

NextExtract ==
    \/ ExtractListing
    \/ ReturnVehicles
    \/ Respond

SpecExtract == InitExtract /\ [][NextExtract]_vars

\* ------------------------------------------------------------------ claims
\* the transport failed with a network or status error on this attempt
TransportFails(o) ==
    \/ o.kind = "network"
    \/ o.kind = "response" /\ o.status >= 400 /\ o.status <= 599

AllFail == \A i \in 1..Len(outcomes) : TransportFails(outcomes[i])

\* get_with_retry has left, by return or by raise
Left == fetchResult.kind # "none"

\* the retries were exhausted: a network/status error left get_with_retry
Exhausted == fetchResult.kind = "raised" /\ fetchResult.error.kind \in {"network", "http"}

\* C1: a call whose transport fails with a network/status error on every
\* attempt sends exactly maxRetries GETs and then raises; while fewer than
\* maxRetries were sent it is still in the loop, and it never sends one more.
C1_ExactlyNAttempts ==
    AllFail =>
        /\ gets = Len(outcomes)
        /\ gets <= maxRetries
        /\ (pc = "fetch" => gets < maxRetries /\ ~Left)
        /\ (Left => fetchResult.kind = "raised" /\ gets = maxRetries)

C1_Witness ==
    /\ pc = "fetched"
    /\ maxRetries = MAX_RETRIES
    /\ AllFail
    /\ gets = MAX_RETRIES
    /\ fetchResult.kind = "raised"

\* C2: when attempts 1..k fail and attempt k+1 succeeds (k < maxRetries), the
\* call returns the response of attempt k+1 after exactly k+1 GETs; the
\* success is the last attempt and the last sleep is the delay before its GET.
C2_ReturnsFirstSuccess ==
    \A j \in 1..Len(outcomes) :
        (outcomes[j].kind = "response" /\ ~TransportFails(outcomes[j])) =>
            /\ j = Len(outcomes)
            /\ j <= maxRetries
            /\ fetchResult = [kind |-> "returned",
                              response |-> [status |-> outcomes[j].status, attempt |-> j]]
            /\ gets = j
            /\ Len(sleeps) = 2 * j - 1
            /\ sleeps[Len(sleeps)].kind = "delay"

C2_Witness ==
    /\ fetchResult.kind = "returned"
    /\ Len(outcomes) = 3
    /\ TransportFails(outcomes[1])
    /\ TransportFails(outcomes[2])
    /\ gets = 3
    /\ pc = "extract"

Backoffs == SelectSeq(sleeps, LAMBDA s : s.kind = "backoff")

\* C3: the backoff after the failure of attempt i (0-indexed, i < N-1) is
\* 2^i seconds and directly follows that attempt; no backoff follows the
\* last failed attempt or a success, so an always-failing call sleeps N-1
\* backoffs.
C3_BackoffPowersOfTwo ==
    /\ \A i \in 1..Len(Backoffs) : Backoffs[i].secs = 2 ^ (i - 1)
    /\ Len(Backoffs) =
          Cardinality({i \in 1..Len(outcomes) : TransportFails(outcomes[i]) /\ i < maxRetries})
    /\ \A i \in 1..Len(outcomes) :
          (TransportFails(outcomes[i]) /\ i < maxRetries) =>
              /\ Len(sleeps) >= 2 * i
              /\ sleeps[2 * i] = [kind |-> "backoff", secs |-> 2 ^ (i - 1)]
    /\ (Left => sleeps[Len(sleeps)].kind = "delay")
    /\ ((Left /\ AllFail) => Len(Backoffs) = maxRetries - 1)

C3_Witness ==
    /\ Exhausted
    /\ maxRetries = 3
    /\ Len(Backoffs) = 2
    /\ Backoffs[1].secs = 1
    /\ Backoffs[2].secs = 2

\* C4: scrape_vehicle_listings never raises: whatever the fetch, the parse
\* and each extraction did, its caller receives a sequence of records.
C4_NeverRaises ==
    /\ result.kind # "raised"
    /\ (pc = "returned" =>
            /\ result.kind = "returned"
            /\ Len(result.records) <= Len(listings))

C4_Witness ==
    /\ pc = "returned"
    /\ fetchResult.kind = "raised"
    /\ fetchResult.error.kind = "other"
    /\ result.kind = "returned"

\* C5: when get_with_retry raises with the retries exhausted, no listing is
\* selected or processed and scrape_vehicle_listings returns the empty
\* sequence.
C5_ExhaustionGivesEmpty ==
    (Exhausted /\ Len(outcomes) = maxRetries) =>
        /\ pc # "extract"
        /\ listings = <<>>
        /\ idx = 0
        /\ vehicles = <<>>
        /\ (pc \in {"returned", "idle"} => result = [kind |-> "returned", records |-> <<>>])

C5_Witness ==
    /\ pc = "returned"
    /\ Exhausted
    /\ gets = maxRetries
    /\ result = [kind |-> "returned", records |-> <<>>]

\* the positions among the first n listings whose extraction does not raise
NonRaising(n) == {j \in 1..n : ~(listings[j].link # None /\ listings[j].link.attr # None /\ listings[j].link.attr.bad)}

\* C6: after a successful fetch and selection the number of records equals
\* the number of listing nodes whose extraction did not raise, during the
\* loop (over the nodes seen so far) and in the returned sequence.
C6_LengthIsNonRaisingCount ==
    /\ (pc = "extract" => Len(vehicles) = Cardinality(NonRaising(idx)))
    /\ ((fetchResult.kind = "returned" /\ result.kind # "none") =>
            /\ result.kind = "returned"
            /\ Len(result.records) = Cardinality(NonRaising(Len(listings))))

C6_Witness ==
    /\ pc = "returned"
    /\ Len(listings) = 2
    /\ skipped = {2}
    /\ Len(result.records) = 1

\* C7: an extraction error at listing j skips exactly listing j: nothing is
\* appended, the records appended before stay as they are, the loop goes on
\* with listing j+1, and the method returns only after the last listing.
C7_SkipOnlyTheRaisingListing ==
    [][ /\ (pc = "extract" /\ idx < Len(listings) /\ (idx + 1) \notin NonRaising(idx + 1)) =>
            /\ vehicles' = vehicles
            /\ idx' = idx + 1
            /\ pc' = "extract"
            /\ listings' = listings
        /\ (pc = "extract" /\ pc' # "extract") =>
            /\ idx = Len(listings)
            /\ result' = [kind |-> "returned", records |-> vehicles]
      ]_vars

C7_Witness ==
    /\ pc = "extract"
    /\ Len(listings) = 2
    /\ skipped = {1}
    /\ idx = 2
    /\ Len(vehicles) = 1

\* C8: after exhaustion the error get_with_retry raises is the error of the
\* last (maxRetries-th) attempt.
C8_LastErrorSurfaced ==
    Exhausted =>
        /\ Len(outcomes) = maxRetries
        /\ fetchResult.error.attempt = maxRetries
        /\ fetchResult.error.kind =
              (IF outcomes[maxRetries].kind = "network" THEN "network" ELSE "http")
        /\ fetchResult.error.status = outcomes[maxRetries].status

C8_Witness ==
    /\ Exhausted
    /\ maxRetries >= 2
    /\ outcomes[1].kind = "network"
    /\ outcomes[maxRetries].kind = "response"
    /\ fetchResult.error.kind = "http"

\* C9: a get_with_retry call never sends more than maxRetries GETs, and its
\* budget is its own: the attempt index counts the attempts of this call
\* only, whatever earlier calls on the instance sent.
C9_PerCallBudget ==
    /\ gets <= maxRetries
    /\ Len(outcomes) <= maxRetries
    /\ gets <= sessionGets
    /\ (pc = "fetch" => attempt = Len(outcomes) /\ attempt < maxRetries)

C9_Witness ==
    /\ caller = "direct"
    /\ calls = 1
    /\ pc = "fetched"
    /\ gets = maxRetries
    /\ sessionGets = 2 * maxRetries

Is2xx(st) == st >= 200 /\ st < 300

\* attempt j, a failure, took the retry path: backoff 2^(j-1) and another
\* attempt when attempts remain, else the raise of its own error
RetryPath(j, kind) ==
    /\ gets >= j
    /\ (j < maxRetries =>
            /\ Len(sleeps) >= 2 * j
            /\ sleeps[2 * j] = [kind |-> "backoff", secs |-> 2 ^ (j - 1)]
            /\ (j = Len(outcomes) => pc = "fetch" /\ attempt = j /\ ~Left))
    /\ (j = maxRetries =>
            fetchResult = [kind |-> "raised",
                           error |-> [kind |-> kind, status |-> outcomes[j].status, attempt |-> j]])

\* C10 as stated: no response with a status outside 2xx is returned as a
\* success.
C10_Original ==
    (fetchResult.kind = "returned" /\ fetchResult.response # None) =>
        Is2xx(fetchResult.response.status)

\* C10: no response with a 4xx or 5xx status is returned as a success; each
\* takes the retry path of a connection or timeout error (same backoff, same
\* attempt accounting, same exhaustion).
C10_ErrorStatusRetried ==
    /\ (fetchResult.kind = "returned" /\ fetchResult.response # None) =>
            ~(fetchResult.response.status >= 400 /\ fetchResult.response.status <= 599)
    /\ \A j \in 1..Len(outcomes) :
          /\ (outcomes[j].kind = "response" /\ TransportFails(outcomes[j])) => RetryPath(j, "http")
          /\ outcomes[j].kind = "network" => RetryPath(j, "network")

C10_Witness ==
    /\ Exhausted
    /\ maxRetries = 3
    /\ outcomes[1].kind = "response"
    /\ outcomes[2].kind = "network"
    /\ outcomes[3].kind = "response"

\* the listing has an href that urlparse rejects
HasBadHref(n) == n.link # None /\ n.link.attr # None /\ n.link.attr.bad

\* where the record of listing j stands among the records
Pos(j) == j - Cardinality({k \in skipped : k <= j})

\* C11: a listing node with absent sub-elements is not skipped for that: its
\* record has the five keys, None for every absent sub-element, for a link
\* without href and for an image without src, and a value for the others.
C11_AbsentGivesNull ==
    \A j \in 1..idx :
        LET n == listings[j]
        IN  /\ (j \in skipped => HasBadHref(n))
            /\ (j \notin skipped =>
                    /\ Pos(j) \in 1..Len(vehicles)
                    /\ LET r == vehicles[Pos(j)]
                       IN  /\ DOMAIN r = {"title", "price", "mileage", "link", "image"}
                           /\ r.title = n.title
                           /\ r.price = n.price
                           /\ r.mileage = n.mileage
                           /\ (r.link = None <=> (n.link = None \/ n.link.attr = None))
                           /\ (r.image = None <=> (n.image = None \/ n.image.attr = None))
                           /\ (pc \in {"returned", "idle"} => result.records = vehicles))

C11_Witness ==
    /\ pc = "returned"
    /\ Len(listings) = 1
    /\ listings[1].price = None
    /\ listings[1].link = Elem(None)
    /\ listings[1].image = None
    /\ Len(result.records) = 1
    /\ result.records[1].title = Str("2020 Civic")
    /\ result.records[1].price = None
    /\ result.records[1].link = None
    /\ result.records[1].image = None

\* the records of the nodes that do not raise, in the order of the nodes
RECURSIVE Kept(_)
Kept(ns) ==
    IF ns = <<>> THEN <<>>
    ELSE IF HasBadHref(Head(ns)) THEN Kept(Tail(ns))
    ELSE <<BuildVehicle(Head(ns))>> \o Kept(Tail(ns))

\* C12: the records are those of the selected nodes that did not raise, in
\* the order of selection, duplicates kept: during the loop for the nodes
\* seen so far, and in the returned sequence for all of them.
C12_DocumentOrder ==
    /\ (pc = "extract" => vehicles = Kept(SubSeq(listings, 1, idx)))
    /\ ((fetchResult.kind = "returned" /\ result.kind = "returned") =>
            result.records = Kept(listings))

C12_Witness ==
    /\ pc = "returned"
    /\ Len(listings) = 2
    /\ listings[1].title # listings[2].title
    /\ Len(result.records) = 2
    /\ result.records[1].title = listings[1].title
    /\ result.records[2].title = listings[2].title

\* C13: once a fetched document is parsed and no node matches the listing
\* selector, the next step is the normal return: the empty sequence, with
\* the success message logged and not the failure message of the handler.
C13_ZeroListingsIsSuccess ==
    [][ (pc = "extract" /\ listings = <<>>) =>
            /\ pc' = "returned"
            /\ result' = [kind |-> "returned", records |-> <<>>]
            /\ log' = "success"
      ]_vars

C13_Witness ==
    /\ pc = "returned"
    /\ fetchResult.kind = "returned"
    /\ listings = <<>>
    /\ idx = 0
    /\ log = "success"
    /\ result = [kind |-> "returned", records |-> <<>>]

\* the listing has a link element with an href that urlparse accepts
HasHref(n) == n.link # None /\ n.link.attr # None /\ ~n.link.attr.bad

\* a path from the root without "." or ".." segments, such as /car/42
PlainRootPath(h) ==
    /\ h.scheme = "" /\ h.netloc = "" /\ h.rooted
    /\ \A k \in 1..Len(h.segs) : h.segs[k] \notin {".", ".."}

\* base + path
OnBase(segs) == [scheme |-> "https", netloc |-> "novaautoland.com", rooted |-> TRUE, segs |-> segs]

\* the image field is the src attribute as found
ImageVerbatim(n, r) == (n.image # None /\ n.image.attr # None) => r.image = n.image.attr

\* C14 as stated: a relative href such as /car/42 becomes base + path, every
\* absolute href (one with a scheme) is returned unchanged, and the image is
\* the src verbatim.
C14_Original ==
    \A j \in 1..idx :
        (j \notin skipped /\ Pos(j) \in 1..Len(vehicles)) =>
            LET n == listings[j]
                r == vehicles[Pos(j)]
            IN  /\ ImageVerbatim(n, r)
                /\ HasHref(n) =>
                      /\ PlainRootPath(n.link.attr) => r.link = OnBase(n.link.attr.segs)
                      /\ n.link.attr.scheme # "" => r.link = AsWritten(n.link.attr)

\* C14: a relative href such as /car/42 becomes base + path; an absolute
\* href whose scheme is not the base's is returned unchanged; one with the
\* base's scheme and a host keeps host and path and gets the scheme in lower
\* case; one with the base's scheme and no host is resolved against the base
\* like a relative path; the image is the src verbatim, never resolved.
C14_LinkResolved ==
    \A j \in 1..idx :
        (j \notin skipped /\ Pos(j) \in 1..Len(vehicles)) =>
            LET n == listings[j]
                r == vehicles[Pos(j)]
            IN  /\ ImageVerbatim(n, r)
                /\ HasHref(n) =>
                      LET h == n.link.attr
                      IN  /\ PlainRootPath(h) => r.link = OnBase(h.segs)
                          /\ (h.scheme # "" /\ h.scheme \notin {"https", "HTTPS"}) =>
                                r.link = AsWritten(h)
                          /\ (h.scheme \in {"https", "HTTPS"} /\ h.netloc # "") =>
                                r.link = [scheme |-> "https", netloc |-> h.netloc,
                                          rooted |-> h.rooted, segs |-> h.segs]
                          /\ (h.scheme \in {"https", "HTTPS"} /\ h.netloc = "") =>
                                r.link = OnBase(h.segs)

C14_Witness ==
    /\ pc = "returned"
    /\ Len(listings) = 1
    /\ listings[1].link = Elem(HrefRel)
    /\ listings[1].image = Elem(Str("/i/1.jpg"))
    /\ Len(result.records) = 1
    /\ result.records[1].link =
          [scheme |-> "https", netloc |-> "novaautoland.com", rooted |-> TRUE, segs |-> <<"car", "42">>]
    /\ result.records[1].image = Str("/i/1.jpg")

\* the route has answered with the error envelope
ErrorEnvelope == envelope # NoResult /\ envelope.status = "error"

\* a /scrape request whose fetch ran out of retries is answered with the
\* success envelope, count 0 and no data
ExhaustionAnswered ==
    (caller = "app" /\ pc = "idle" /\ Exhausted) =>
        envelope = [status |-> "success", code |-> 200, count |-> 0, data |-> <<>>]

\* C15 as stated: exhaustion gives the success envelope with count 0, and the
\* error envelope is produced only when an error has escaped both tiers,
\* that is when scrape_vehicle_listings raised.
C15_Original ==
    /\ ExhaustionAnswered
    /\ (ErrorEnvelope => result.kind = "raised")

\* C15: exhaustion gives the success envelope with count 0, and the error
\* envelope is produced only when an exception reaches the route's handler:
\* one that escaped both tiers, or one raised by the scraper's constructor
\* before either tier was entered.
C15_EnvelopeAtBoundary ==
    /\ ExhaustionAnswered
    /\ (ErrorEnvelope =>
            \/ result.kind = "raised"
            \/ (result.kind = "none" /\ fetchResult.kind = "none" /\ gets = 0 /\ log = "api_error"))

C15_Witness ==
    /\ caller = "app"
    /\ pc = "idle"
    /\ Exhausted
    /\ gets = maxRetries
    /\ envelope.status = "success"
    /\ envelope.count = 0
    /\ envelope.data = <<>>

\* the sleep trace of the call in progress: the request delay before each
\* attempt, the backoff 2^(i-1) after the i-th failure
TraceShape ==
    /\ requestDelay >= DelayMin
    /\ requestDelay <= DelayMax
    /\ \A p \in 1..Len(sleeps) :
          IF p % 2 = 1
          THEN sleeps[p] = [kind |-> "delay", secs |-> requestDelay]
          ELSE sleeps[p] = [kind |-> "backoff", secs |-> 2 ^ ((p \div 2) - 1)]
    /\ Cardinality({p \in 1..Len(sleeps) : sleeps[p].kind = "delay"}) = Len(outcomes)
    /\ gets <= Len(outcomes)
    /\ (pc = "fetch" => Len(sleeps) = 2 * Len(outcomes))
    /\ ((Left /\ fetchResult # [kind |-> "returned", response |-> None]) =>
            Len(sleeps) = 2 * Len(outcomes) - 1)

C17_Terminates ==
    /\ [][ /\ pc = "fetch" =>
                \/ pc' = "fetched"
                \/ (pc' = "fetch" /\ attempt' = attempt + 1 /\ attempt' < maxRetries)
           /\ pc = "extract" =>
                \/ pc' = "returned"
                \/ (pc' = "extract" /\ idx' = idx + 1 /\ idx' <= Len(listings))
         ]_vars
    /\ (pc = "fetch") ~> (pc = "fetched")
    /\ (pc \in {"fetch", "fetched", "extract"}) ~> (pc = "returned")

C17_Witness ==
    /\ pc = "returned"
    /\ maxRetries = MAX_RETRIES
    /\ Len(outcomes) = MAX_RETRIES
    /\ fetchResult.kind = "returned"
    /\ Len(listings) = 2
    /\ idx = 2
    /\ result.kind = "returned"

\* C18: an error that is no RequestException ends get_with_retry on the
\* attempt that raised it, even when attempts remain: it is the last attempt
\* of the call, no backoff follows it, the error itself leaves the method,
\* and scrape_vehicle_listings selects nothing and returns the empty sequence.
C18_OtherErrorsNotRetried ==
    \A j \in 1..Len(outcomes) :
        outcomes[j].kind = "other" =>
            /\ j = Len(outcomes)
            /\ fetchResult = [kind |-> "raised",
                              error |-> [kind |-> "other", status |-> 0, attempt |-> j]]
            /\ Len(sleeps) = 2 * j - 1
            /\ sleeps[Len(sleeps)].kind = "delay"
            /\ gets = j - 1
            /\ pc \notin {"fetch", "extract"}
            /\ listings = <<>>
            /\ (pc \in {"returned", "idle"} => result = [kind |-> "returned", records |-> <<>>])

C18_Witness ==
    /\ maxRetries = MAX_RETRIES
    /\ Len(outcomes) = 1
    /\ outcomes[1].kind = "other"
    /\ pc = "returned"
    /\ Len(sleeps) = 1
    /\ result = [kind |-> "returned", records |-> <<>>]

====
